---- MODULE Spec2Model ----
(***************************************************************************)
(* Model of src/diff.rs of yabe: the directed pairwise diff compute_diff    *)
(* and the multi-way quorum reduction diff_and_common_multiple over YAML    *)
(* value trees.                                                             *)
(*                                                                          *)
(* A Yaml value is a record [tag, val]; tag is the name the code gives the  *)
(* variant at diff.rs:77-86.  A Hash is a function from key strings to      *)
(* values (key order is not observable by any code modelled here), an Array *)
(* a sequence.  Option<T> is a sequence of length at most one.  The values  *)
(* are those of the seven variants Null, Boolean, Integer, Real, String,    *)
(* Array and Hash; Alias and BadValue (tag "unknown") are not drawn.        *)
(*                                                                          *)
(* Both functions are pure.  Each specification draws the arguments of one  *)
(* call in its initial state and has one action, the call.  A call of       *)
(* diff_and_common_multiple can return any of a set of results, because it  *)
(* selects the base of a scalar column in the iteration order of a HashMap. *)
(***************************************************************************)
EXTENDS Integers, Sequences, FiniteSets, TLC

VARIABLES pc, obj, helm, diff, objs, quorum, base, diffs

vars == <<pc, obj, helm, diff, objs, quorum, base, diffs>>

--------------------------------------------------------------------------
(* Yaml values                                                             *)

Null == [tag |-> "null", val |-> 0]
Boolean(b) == [tag |-> "bool", val |-> b]
Integer(i) == [tag |-> "int", val |-> i]
Real(s) == [tag |-> "real", val |-> s]
String(s) == [tag |-> "string", val |-> s]
Array(a) == [tag |-> "array", val |-> a]
Hash(h) == [tag |-> "hash", val |-> h]

None == << >>
Some(v) == << v >>

is_null(v) == v.tag = "null"

\* Hash::new()
EmptyHash == [k \in {} |-> Null]

\* Hash::insert
insert(h, key, v) == [k \in (DOMAIN h) \cup {key} |-> IF k = key THEN v ELSE h[k]]

\* h.get(key).unwrap_or(&Yaml::Null)
get_or_null(h, key) == IF key \in DOMAIN h THEN h[key] ELSE Null

\* crate::deep_equal::deep_equal: structural equality; scalars by exact
\* value, arrays by length and pairwise, maps by key set and pairwise.
RECURSIVE deep_equal(_, _)
deep_equal(a, b) ==
    IF a.tag = "hash" /\ b.tag = "hash"
    THEN /\ DOMAIN a.val = DOMAIN b.val
         /\ \A k \in DOMAIN a.val : deep_equal(a.val[k], b.val[k])
    ELSE IF a.tag = "array" /\ b.tag = "array"
    THEN /\ Len(a.val) = Len(b.val)
         /\ \A j \in 1..Len(a.val) : deep_equal(a.val[j], b.val[j])
    ELSE a.tag = b.tag /\ a.val = b.val

--------------------------------------------------------------------------
(* compute_diff                                                            *)

RECURSIVE compute_diff(_, _)

\* diff_hashes, keeping every candidate key whether or not it changed
diff_hashes_keep_all(obj_hash, helm_hash) ==
    LET sub(key) == compute_diff(obj_hash[key], get_or_null(helm_hash, key))
        diff_hash == [key \in DOMAIN obj_hash |->
                         IF sub(key) # None THEN sub(key)[1] ELSE obj_hash[key]]
    IN  IF DOMAIN obj_hash = {} THEN None ELSE Some(Hash(diff_hash))

\* diff_hashes, also recording the keys only the baseline holds
diff_hashes_both_sides(obj_hash, helm_hash) ==
    LET sub(key) == compute_diff(get_or_null(obj_hash, key),
                                 get_or_null(helm_hash, key))
        kept == {key \in (DOMAIN obj_hash) \cup (DOMAIN helm_hash) :
                    sub(key) # None}
        diff_hash == [key \in kept |-> sub(key)[1]]
    IN  IF kept = {} THEN None ELSE Some(Hash(diff_hash))

\* diff.rs:14-27: both values are hashes
diff_hashes(obj_hash, helm_hash) ==
    LET sub(key) == compute_diff(obj_hash[key], get_or_null(helm_hash, key))
        kept == {key \in DOMAIN obj_hash : sub(key) # None}
        diff_hash == [key \in kept |-> sub(key)[1]]
    IN  IF kept = {} THEN None ELSE Some(Hash(diff_hash))

\* diff_arrays without the length test: zip stops at the shorter array
diff_arrays_zip(o, obj_array, helm_array) ==
    LET n == IF Len(obj_array) < Len(helm_array)
             THEN Len(obj_array) ELSE Len(helm_array)
        sub(j) == compute_diff(obj_array[j], helm_array[j])
        items == [j \in 1..n |-> IF sub(j) # None THEN sub(j)[1] ELSE Null]
        has_diff == \E j \in 1..n : sub(j) # None
    IN  IF has_diff THEN Some(Array(items)) ELSE None

\* diff.rs:28-48: both values are arrays
diff_arrays(o, obj_array, helm_array) ==
    IF Len(obj_array) # Len(helm_array)
    THEN Some(o)
    ELSE LET sub(j) == compute_diff(obj_array[j], helm_array[j])
             items == [j \in 1..Len(obj_array) |->
                          IF sub(j) # None THEN sub(j)[1] ELSE Null]
             has_diff == \E j \in 1..Len(obj_array) : sub(j) # None
         IN  IF has_diff THEN Some(Array(items)) ELSE None

compute_diff(o, h) ==
    IF deep_equal(o, h)
    THEN None
    ELSE IF o.tag = "hash" /\ h.tag = "hash"
    THEN diff_hashes(o.val, h.val)
    ELSE IF o.tag = "array" /\ h.tag = "array"
    THEN diff_arrays(o, o.val, h.val)
    ELSE Some(o)

--------------------------------------------------------------------------
(* diff_and_common_multiple                                                *)

\* quorum_count rounding down
quorum_count_floor(q, total_files) == (q * total_files) \div 100

\* diff.rs:72.  quorum is held in percent (the unit of the debug line at
\* diff.rs:60-64); for the quorums of Quorums and every total_files up to
\* MaxObjs + 1 the f64 product quorum * total_files rounds up to the same
\* integer as the exact product.
quorum_count(q, total_files) == (q * total_files + 99) \div 100

\* diff.rs:75-87
types(os) == [i \in 1..Len(os) |-> os[i].tag]

\* diff.rs:89
type_set(os) == {types(os)[i] : i \in 1..Len(os)}

\* non_null_diffs without the is_null test
non_null_diffs_keep_null(os) == [i \in 1..Len(os) |-> Some(os[i])]

\* diff.rs:96-98 and 141-143
non_null_diffs(os) ==
    [i \in 1..Len(os) |-> IF is_null(os[i]) THEN None ELSE Some(os[i])]

\* diff.rs:109-112: the counting map, keyed by value
occurrences(os) ==
    [v \in {os[i] : i \in 1..Len(os)} |->
        Cardinality({i \in 1..Len(os) : os[i] = v})]

\* base_values with a strict comparison
base_values_strict(occ, count) == {v \in DOMAIN occ : occ[v] > count}

\* diff.rs:115-121: the loop runs over a std HashMap, whose iteration order
\* is seeded per process, and stops at the first entry that meets the
\* quorum; every value that meets it can be that entry.
base_values(occ, count) == {v \in DOMAIN occ : occ[v] >= count}

\* base_diffs comparing the variant only
base_diffs_by_tag(os, base_val) ==
    [i \in 1..Len(os) |->
        IF os[i].tag = base_val.tag THEN None ELSE Some(os[i])]

\* diff.rs:125-134
base_diffs(os, base_val) ==
    [i \in 1..Len(os) |->
        IF deep_equal(os[i], base_val) THEN None ELSE Some(os[i])]

\* diff.rs:104-146: all inputs carry one scalar tag
primitive_results(os, q) ==
    LET candidates == base_values(occurrences(os), quorum_count(q, Len(os)))
    IN  IF candidates = {}
        THEN {<<None, non_null_diffs(os)>>}
        ELSE {<<Some(base_val), base_diffs(os, base_val)>> :
                 base_val \in candidates}

\* diff.rs:152-159
all_keys(os) == UNION {DOMAIN os[i].val : i \in 1..Len(os)}

\* diff.rs:172-181
values_at_key(os, key) ==
    [i \in 1..Len(os) |-> get_or_null(os[i].val, key)]

\* diff.rs:162-165
hash_acc_init(os) ==
    [base_hash |-> EmptyHash,
     diffs     |-> [i \in 1..Len(os) |-> EmptyHash],
     has_base  |-> FALSE,
     has_diffs |-> [i \in 1..Len(os) |-> FALSE]]

\* diff.rs:186-190
insert_sub_base(acc, key, sub_base) ==
    IF sub_base # None
    THEN [acc EXCEPT !.base_hash = insert(@, key, sub_base[1]),
                     !.has_base = TRUE]
    ELSE acc

\* insert_sub_diffs reading the sub-diffs back to front
insert_sub_diffs_reversed(acc, key, sub_diffs) ==
    LET n == Len(sub_diffs)
        kept(i) == sub_diffs[n + 1 - i] # None
                      /\ ~is_null(sub_diffs[n + 1 - i][1])
    IN  [acc EXCEPT
           !.diffs = [i \in DOMAIN @ |->
                         IF kept(i)
                         THEN insert(@[i], key, sub_diffs[n + 1 - i][1])
                         ELSE @[i]],
           !.has_diffs = [i \in DOMAIN @ |-> @[i] \/ kept(i)]]

\* diff.rs:192-200
insert_sub_diffs(acc, key, sub_diffs) ==
    LET kept(i) == sub_diffs[i] # None /\ ~is_null(sub_diffs[i][1])
    IN  [acc EXCEPT
           !.diffs = [i \in DOMAIN @ |->
                         IF kept(i) THEN insert(@[i], key, sub_diffs[i][1])
                                    ELSE @[i]],
           !.has_diffs = [i \in DOMAIN @ |-> @[i] \/ kept(i)]]

\* hash_result without the has_base test
hash_result_always_base(acc) ==
    << Some(Hash(acc.base_hash)),
       [i \in DOMAIN acc.diffs |->
           IF acc.has_diffs[i] THEN Some(Hash(acc.diffs[i])) ELSE None] >>

\* diff.rs:204-222
hash_result(acc) ==
    << IF acc.has_base THEN Some(Hash(acc.base_hash)) ELSE None,
       [i \in DOMAIN acc.diffs |->
           IF acc.has_diffs[i] THEN Some(Hash(acc.diffs[i])) ELSE None] >>

RECURSIVE diff_and_common_multiple(_, _)

\* diff.rs:168-201: the loop over all_keys; each key is reduced on its own
\* column, so the order in which the HashSet yields the keys does not show
\* in the accumulators.  The result is the set of accumulators the loop can
\* end with.
RECURSIVE hash_loop(_, _, _, _)
hash_loop(keys, os, q, acc) ==
    IF keys = {}
    THEN {acc}
    ELSE LET key == CHOOSE k \in keys : TRUE
         IN  UNION {hash_loop(keys \ {key}, os, q,
                        insert_sub_diffs(insert_sub_base(acc, key, sub[1]),
                                         key, sub[2])) :
                    sub \in diff_and_common_multiple(values_at_key(os, key), q)}

\* diff.rs:225-230
whole_diffs(os) == [i \in 1..Len(os) |-> Some(os[i])]

\* diff.rs:55-231: the set of results (base, diffs) a call can return
diff_and_common_multiple(os, q) ==
    IF Len(os) = 0
    THEN {<<None, << >> >>}
    ELSE IF Cardinality(type_set(os)) > 1
    THEN {<<None, non_null_diffs(os)>>}
    ELSE LET obj_type == types(os)[1]
         IN  IF obj_type # "hash" /\ obj_type # "array"
             THEN primitive_results(os, q)
             ELSE IF obj_type = "hash"
             THEN {hash_result(acc) :
                      acc \in hash_loop(all_keys(os), os, q, hash_acc_init(os))}
             ELSE {<<None, whole_diffs(os)>>}

--------------------------------------------------------------------------
(* Input universes                                                         *)

MaxArrayLen == 2
MaxObjs == 3

Keys == {"a", "b"}

I1 == Integer(1)
I2 == Integer(2)
I3 == Integer(3)
Sx == String("x")
R1 == Real("1.0")
BT == Boolean(TRUE)

\* the map {a |-> va, b |-> vb}
HashAB(va, vb) == Hash([k \in {"a", "b"} |-> IF k = "a" THEN va ELSE vb])
\* the map {key |-> v}
Hash1(key, v) == Hash([k \in {key} |-> v])

\* all hashes with keys among Keys and values in S
HashesOver(S) ==
    UNION {{Hash(h) : h \in [D -> S]} : D \in SUBSET Keys}

\* all arrays of at most n items taken from S
ArraysOver(S, n) ==
    UNION {{Array(a) : a \in [1..m -> S]} : m \in 0..n}

DiffScalars == {Null, I1, I2, Sx}
DiffItems ==
    {Null, I1, Hash(EmptyHash), Hash1("a", I1), HashAB(I1, I2), HashAB(I2, I2)}
DiffValues ==
    DiffScalars
      \cup ArraysOver(DiffItems, MaxArrayLen)
      \cup HashesOver(DiffItems \cup ArraysOver({I1, I2}, MaxArrayLen))

--------------------------------------------------------------------------
(* The calls                                                               *)

InitDiff ==
    /\ pc = "start"
    /\ obj \in DiffValues
    /\ helm \in DiffValues
    /\ diff = None
    /\ objs = << >>
    /\ quorum = 100
    /\ base = None
    /\ diffs = << >>

CallComputeDiff ==
    /\ pc = "start"
    /\ diff' = compute_diff(obj, helm)
    /\ pc' = "diffed"
    /\ UNCHANGED <<obj, helm, objs, quorum, base, diffs>>

NextDiff == CallComputeDiff

SpecDiff == InitDiff /\ [][NextDiff]_vars


--------------------------------------------------------------------------
(* Properties of compute_diff                                              *)

\* a is contained in b: equal to it up to keys that only b's maps hold
RECURSIVE contained(_, _)
contained(a, b) ==
    \/ deep_equal(a, b)
    \/ /\ a.tag = "hash" /\ b.tag = "hash"
       /\ \A k \in DOMAIN a.val :
             contained(a.val[k], IF k \in DOMAIN b.val THEN b.val[k] ELSE Null)
    \/ /\ a.tag = "array" /\ b.tag = "array"
       /\ Len(a.val) = Len(b.val)
       /\ \A j \in 1..Len(a.val) : contained(a.val[j], b.val[j])

\* C1 as stated: compute_diff(a, b) is None if and only if equal(a, b)
C1_NoneIffEqual ==
    pc = "diffed" => ((diff = None) <=> deep_equal(obj, helm))

\* C1 amended: compute_diff(a, b) is None whenever equal(a, b), and more
\* generally exactly when the candidate a is contained in the baseline b:
\* equal to it apart from keys that only the baseline's maps hold (a key the
\* baseline lacks reading as Null), at any depth of maps and of equal-length
\* arrays.  Two values that are not both maps or both arrays give None only
\* when they are equal.
C1_NoneIffContained ==
    pc = "diffed" =>
        /\ deep_equal(obj, helm) => diff = None
        /\ (diff = None) <=> contained(obj, helm)
        /\ ~(obj.tag = helm.tag /\ obj.tag \in {"hash", "array"})
              => ((diff = None) <=> deep_equal(obj, helm))

C1_Witness ==
    /\ pc = "diffed" /\ diff = None /\ ~deep_equal(obj, helm)
    /\ obj.tag = "hash" /\ helm.tag = "hash"
    /\ DOMAIN obj.val # {}
    /\ (DOMAIN helm.val) \ (DOMAIN obj.val) # {}

\* the key paths of a value, through maps by key and arrays by position
RECURSIVE key_paths(_)
key_paths(v) ==
    {<< >>} \cup
    IF v.tag = "hash"
    THEN UNION {{<<k>> \o p : p \in key_paths(v.val[k])} : k \in DOMAIN v.val}
    ELSE IF v.tag = "array"
    THEN UNION {{<<ToString(j)>> \o p : p \in key_paths(v.val[j])} :
                   j \in 1..Len(v.val)}
    ELSE {}

C7_SubDiff(k) ==
    compute_diff(obj.val[k],
                 IF k \in DOMAIN helm.val THEN helm.val[k] ELSE Null)

C7_Changed == {k \in DOMAIN obj.val : C7_SubDiff(k) # None}

\* C7: for unequal maps the returned map holds exactly the candidate's keys
\* whose sub-diff against the baseline (Null where the baseline lacks the
\* key) is non-empty, each mapped to that sub-diff; nothing is returned when
\* there is no such key; no key path of the result is absent from the
\* candidate.
C7_MapDiffKeys ==
    pc = "diffed" /\ obj.tag = "hash" /\ helm.tag = "hash"
                  /\ ~deep_equal(obj, helm) =>
        /\ (diff = None) <=> (C7_Changed = {})
        /\ diff # None =>
              /\ diff[1].tag = "hash"
              /\ DOMAIN diff[1].val = C7_Changed
              /\ \A k \in C7_Changed : diff[1].val[k] = C7_SubDiff(k)[1]
              /\ key_paths(diff[1]) \subseteq key_paths(obj)

C7_Witness ==
    /\ pc = "diffed" /\ obj.tag = "hash" /\ helm.tag = "hash"
    /\ diff # None
    /\ DOMAIN diff[1].val # DOMAIN obj.val
    /\ \E k \in DOMAIN diff[1].val :
          /\ diff[1].val[k].tag = "hash"
          /\ k \in DOMAIN helm.val /\ helm.val[k].tag = "hash"
          /\ (DOMAIN helm.val[k].val) \ (DOMAIN obj.val[k].val) # {}

C8_SubDiff(j) == compute_diff(obj.val[j], helm.val[j])

\* C8 as stated: unequal arrays of equal length always give an array of
\* that length with at least one changed position
C8_ArrayDiff ==
    pc = "diffed" /\ obj.tag = "array" /\ helm.tag = "array"
                  /\ ~deep_equal(obj, helm) =>
        IF Len(obj.val) # Len(helm.val)
        THEN diff = Some(obj)
        ELSE /\ diff # None
             /\ diff[1].tag = "array"
             /\ Len(diff[1].val) = Len(obj.val)
             /\ \A j \in 1..Len(obj.val) :
                   /\ C8_SubDiff(j) # None => diff[1].val[j] = C8_SubDiff(j)[1]
                   /\ deep_equal(obj.val[j], helm.val[j])
                         => diff[1].val[j] = Null
             /\ \E j \in 1..Len(obj.val) : C8_SubDiff(j) # None

\* C8 amended: for unequal arrays compute_diff returns the candidate
\* verbatim when the lengths differ; when they are equal it returns nothing
\* if every element-wise sub-diff is empty, and otherwise an array of that
\* length whose position j holds the sub-diff of the two elements when it
\* is non-empty and the Null placeholder otherwise.
C8_ArrayDiffAmended ==
    pc = "diffed" /\ obj.tag = "array" /\ helm.tag = "array"
                  /\ ~deep_equal(obj, helm) =>
        IF Len(obj.val) # Len(helm.val)
        THEN diff = Some(obj)
        ELSE IF \A j \in 1..Len(obj.val) : C8_SubDiff(j) = None
        THEN diff = None
        ELSE /\ diff # None
             /\ diff[1].tag = "array"
             /\ Len(diff[1].val) = Len(obj.val)
             /\ \A j \in 1..Len(obj.val) :
                   diff[1].val[j] = IF C8_SubDiff(j) # None
                                    THEN C8_SubDiff(j)[1] ELSE Null

C8_Witness ==
    /\ pc = "diffed" /\ obj.tag = "array" /\ helm.tag = "array"
    /\ Len(obj.val) = Len(helm.val)
    /\ diff # None
    /\ \E j \in 1..Len(obj.val) :
          ~deep_equal(obj.val[j], helm.val[j]) /\ diff[1].val[j] = Null
    /\ \E j \in 1..Len(obj.val) :
          diff[1].val[j] # Null /\ diff[1].val[j] # obj.val[j]

--------------------------------------------------------------------------
(* The reduction call                                                      *)

ReduceValues ==
    {Null, I1, I2, I3, Sx, R1, BT, Boolean(FALSE),
     Array(<< >>), Array(<<I1>>),
     Hash(EmptyHash), Hash1("a", I1), Hash1("a", I2), Hash1("a", Null),
     Hash1("a", Sx), Hash1("b", Sx), Hash1("b", I2),
     HashAB(I1, I2), HashAB(I1, I3),
     Hash1("a", Hash(EmptyHash)), Hash1("a", Array(<<I1>>)),
     Hash1("a", Hash1("b", I1)), Hash1("a", Hash1("b", I2)),
     HashAB(Hash1("b", I1), Array(<<I1>>))}

\* quorum fractions in percent: 0.5, 0.6 and 1.0 lie in (0, 1]; 0 and 1.5
\* are the out-of-range arguments the function also accepts.
Quorums == {0, 50, 60, 100, 150}

SeqsUpTo(S, n) == UNION {[1..m -> S] : m \in 0..n}

InitReduce ==
    /\ pc = "start"
    /\ objs \in SeqsUpTo(ReduceValues, MaxObjs)
    /\ quorum \in Quorums
    /\ base = None
    /\ diffs = << >>
    /\ obj = Null
    /\ helm = Null
    /\ diff = None

CallDiffAndCommonMultiple ==
    /\ pc = "start"
    /\ \E result \in diff_and_common_multiple(objs, quorum) :
          /\ base' = result[1]
          /\ diffs' = result[2]
    /\ pc' = "reduced"
    /\ UNCHANGED <<obj, helm, diff, objs, quorum>>

NextReduce == CallDiffAndCommonMultiple

SpecReduce == InitReduce /\ [][NextReduce]_vars

Init == InitDiff \/ InitReduce
Next == CallComputeDiff \/ CallDiffAndCommonMultiple
Spec == Init /\ [][Next]_vars

--------------------------------------------------------------------------
(* Properties of diff_and_common_multiple                                  *)

N == Len(objs)

ScalarTags == {"null", "bool", "int", "real", "string"}

Tags == {objs[i].tag : i \in 1..N}

\* ceil(quorum * N), quorum being in percent
Needed ==
    CHOOSE n \in 0..(2 * N) :
        n * 100 >= quorum * N /\ (n - 1) * 100 < quorum * N

Count(v) == Cardinality({i \in 1..N : deep_equal(objs[i], v)})

InRange == quorum > 0 /\ quorum <= 100

SameScalarTag == N > 0 /\ Cardinality(Tags) = 1 /\ Tags \subseteq ScalarTags

QuorumMet == \E i \in 1..N : Count(objs[i]) >= Needed

\* d is v itself or a map of keys of v, each holding such a part of v[k]
RECURSIVE part_of(_, _)
part_of(d, v) ==
    \/ d = v
    \/ /\ d.tag = "hash" /\ v.tag = "hash"
       /\ DOMAIN d.val \subseteq DOMAIN v.val
       /\ \A k \in DOMAIN d.val : part_of(d.val[k], v.val[k])

\* C2: diffs has one entry per input, a present entry i is values[i] or a
\* map made of key paths and leaves of values[i], and the empty input gives
\* (None, []).
C2_IndexAligned ==
    pc = "reduced" =>
        /\ Len(diffs) = N
        /\ \A i \in 1..N : diffs[i] # None => part_of(diffs[i][1], objs[i])
        /\ N = 0 => base = None /\ diffs = << >>

C2_Witness ==
    /\ pc = "reduced" /\ N = MaxObjs
    /\ \E i, j \in 1..N :
          /\ diffs[i] # None /\ diffs[i][1] # objs[i]
          /\ diffs[j] # None /\ diffs[j] # diffs[i]

\* C3: inputs of one scalar tag with a value that reaches quorum_count get
\* a base that is one of the values reaching it, and diffs[i] is None where
\* values[i] equals the base and Some(values[i]) elsewhere.
C3_ScalarBase ==
    pc = "reduced" /\ SameScalarTag /\ QuorumMet =>
        /\ base # None
        /\ \E i \in 1..N : base[1] = objs[i] /\ Count(objs[i]) >= Needed
        /\ \A i \in 1..N :
              diffs[i] = IF deep_equal(objs[i], base[1])
                         THEN None ELSE Some(objs[i])
        /\ quorum = 100 /\ (\A i \in 1..N : deep_equal(objs[i], objs[1]))
              => base = Some(objs[1]) /\ \A i \in 1..N : diffs[i] = None

C3_Witness ==
    /\ pc = "reduced" /\ SameScalarTag /\ N = MaxObjs /\ InRange
    /\ base # None /\ Count(base[1]) = Needed
    /\ \E i, j \in 1..N : diffs[i] = None /\ diffs[j] = Some(objs[j])

C4_First ==
    CHOOSE i \in 1..N :
        /\ Count(objs[i]) >= Needed
        /\ \A j \in 1..(i - 1) : Count(objs[j]) < Needed

\* C4: the scalar base is the first value in input order among those that
\* reach quorum_count
C4_FirstInInputOrder ==
    pc = "reduced" /\ SameScalarTag /\ QuorumMet /\ InRange =>
        base = Some(objs[C4_First])

\* C5: with more than one tag, or one scalar tag and no value reaching
\* quorum_count, or arrays only, the base is None and diffs[i] is
\* Some(values[i]) for a non-null values[i] and None for a Null one.
C5_NoBase ==
    pc = "reduced" /\ N > 0
        /\ \/ Cardinality(Tags) > 1
           \/ SameScalarTag /\ ~QuorumMet
           \/ Tags = {"array"}
    =>  /\ base = None
        /\ Len(diffs) = N
        /\ \A i \in 1..N :
              diffs[i] = IF objs[i].tag = "null" THEN None ELSE Some(objs[i])

C5_Witness ==
    /\ pc = "reduced" /\ N = MaxObjs /\ InRange /\ Cardinality(Tags) > 1
    /\ \E i, j \in 1..N :
          /\ objs[i].tag = "null" /\ diffs[i] = None
          /\ objs[j].tag = "hash" /\ diffs[j] = Some(objs[j])

C6_Keys == UNION {DOMAIN objs[i].val : i \in 1..N}

C6_Column(k) ==
    [i \in 1..N |-> IF k \in DOMAIN objs[i].val THEN objs[i].val[k] ELSE Null]

C6_Reductions(k) == diff_and_common_multiple(C6_Column(k), quorum)

C6_Assembled(f) ==
    LET base_keys == {k \in C6_Keys : f[k][1] # None}
        diff_keys(i) == {k \in C6_Keys : /\ f[k][2][i] # None
                                         /\ f[k][2][i][1].tag # "null"}
    IN  /\ base = IF base_keys = {} THEN None
                  ELSE Some(Hash([k \in base_keys |-> f[k][1][1]]))
        /\ diffs = [i \in 1..N |->
                       IF diff_keys(i) = {} THEN None
                       ELSE Some(Hash([k \in diff_keys(i) |-> f[k][2][i][1]]))]

\* C6: for maps the result is put together key by key over the union of
\* the keys from a reduction of each column (a missing key reading as
\* Null): the base holds the keys whose column gave a sub-base, diffs[i] the
\* keys whose sub-diff at i is present and not Null, and either is None
\* when it would hold no key.  The three maps of the scenario give base
\* {a:1, b:2} and diffs [None, {b:3}, None] at quorum 0.6.
C6_MapAssembly ==
    /\ pc = "reduced" /\ N > 0 /\ Tags = {"hash"} =>
          \E f \in [C6_Keys -> UNION {C6_Reductions(k) : k \in C6_Keys}] :
              /\ \A k \in C6_Keys : f[k] \in C6_Reductions(k)
              /\ C6_Assembled(f)
    /\ pc = "reduced" /\ quorum = 60
          /\ objs = <<HashAB(I1, I2), HashAB(I1, I3), HashAB(I1, I2)>>
       => /\ base = Some(HashAB(I1, I2))
          /\ diffs = <<None, Some(Hash1("b", I3)), None>>

C6_Witness ==
    /\ pc = "reduced" /\ N = MaxObjs /\ Tags = {"hash"} /\ InRange
    /\ base # None /\ DOMAIN base[1].val # C6_Keys
    /\ \E i, j \in 1..N : diffs[i] = None /\ diffs[j] # None

Missing == [tag |-> "missing", val |-> 0]

\* the value v holds at the path p of map keys; a map that lacks the last
\* key of p holds Null there
RECURSIVE value_at(_, _)
value_at(v, p) ==
    IF p = << >> THEN v
    ELSE IF v.tag # "hash" THEN Missing
    ELSE IF Head(p) \in DOMAIN v.val THEN value_at(v.val[Head(p)], Tail(p))
    ELSE IF Len(p) = 1 THEN Null
    ELSE Missing

\* the paths of map keys that lead to a value of v that is not a map
RECURSIVE leaf_paths(_)
leaf_paths(v) ==
    IF v.tag = "hash"
    THEN UNION {{<<k>> \o p : p \in leaf_paths(v.val[k])} : k \in DOMAIN v.val}
    ELSE {<< >>}

C9_Support(p, v) ==
    Cardinality({i \in 1..N : deep_equal(value_at(objs[i], p), v)})

\* C9: for a quorum in (0, 1], every scalar the base holds at a path p is
\* held there by at least ceil(quorum * N) inputs, and all N inputs carry
\* its tag at p.
C9_BaseHasQuorum ==
    pc = "reduced" /\ InRange /\ base # None =>
        \A p \in leaf_paths(base[1]) :
            LET v == value_at(base[1], p)
            IN  v.tag \in ScalarTags =>
                   /\ C9_Support(p, v) >= Needed
                   /\ \A i \in 1..N : value_at(objs[i], p).tag = v.tag

C9_Witness ==
    /\ pc = "reduced" /\ InRange /\ base # None /\ N = MaxObjs
    /\ \E p \in leaf_paths(base[1]) :
          /\ Len(p) = 2
          /\ C9_Support(p, value_at(base[1], p)) = Needed
          /\ Needed < N

\* C10: every non-null scalar and every array that values[i] holds at a
\* path p of map keys is held at p by diffs[i], or else the base holds an
\* equal value at p.
C10_NoLeafLost ==
    pc = "reduced" =>
        \A i \in 1..N : \A p \in leaf_paths(objs[i]) :
            LET v == value_at(objs[i], p)
            IN  v.tag # "null" =>
                   \/ diffs[i] # None /\ value_at(diffs[i][1], p) = v
                   \/ base # None /\ deep_equal(value_at(base[1], p), v)

C10_Witness ==
    /\ pc = "reduced" /\ N = MaxObjs /\ base # None
    /\ \E i \in 1..N :
          /\ diffs[i] # None
          /\ \E p, r \in leaf_paths(objs[i]) :
                /\ value_at(objs[i], p).tag # "null"
                /\ value_at(diffs[i][1], p) = value_at(objs[i], p)
                /\ Len(r) = 2 /\ value_at(objs[i], r).tag # "null"
                /\ value_at(diffs[i][1], r) # value_at(objs[i], r)
                /\ deep_equal(value_at(base[1], r), value_at(objs[i], r))
====
